---- MODULE Spec2Model ----
(***************************************************************************)
(* pytype/overlay_utils.py: the parameter descriptor Param and the         *)
(* signature builder make_method.                                          *)
(*                                                                         *)
(* Python values are records tagged with their runtime class in `kind`.    *)
(* Python's None is the record None.  Parameter and method names are       *)
(* strings; a name slot that holds None holds NoneName.  A dict is a       *)
(* function from its keys; a list or tuple is a sequence.                  *)
(***************************************************************************)
EXTENDS Integers, Sequences, FiniteSets, TLC

VARIABLES pc, heap, pop, margs, mres

vars == <<pc, heap, pop, margs, mres>>

---------------------------------------------------------------------------
(* Bounds *)

\* Param objects the overlay author keeps alive at once.
MaxParamObjs == 1
\* Length of the positional parameter list handed to make_method.
MaxParams == 2
\* Length of the keyword-only parameter list handed to make_method.
MaxKwonly == 1
\* Candidate values (bindings) of one cfg.Variable.
MaxCandidates == 2

---------------------------------------------------------------------------
(* Python values *)

None == [kind |-> "NoneType"]

NoneName == "None"

Str(s) == [kind |-> "str", value |-> s]

Class(c) == [kind |-> "Class", name |-> c]

TypeParameter(n) == [kind |-> "TypeParameter", name |-> n]

\* abstract.Union(options, vm): a union value over the options it is given.
Union(options) == [kind |-> "Union", options |-> options]

\* An abstract value held by a binding of a variable; cls is a Class or None.
Instance(i, cls) == [kind |-> "Instance", id |-> i, cls |-> cls]

\* cfg.Variable: a multi-valued binding; data is the list of its candidates.
Variable(id, data) == [kind |-> "Variable", id |-> id, data |-> data]

\* vm.convert.unsolvable: the engine's one shared unknown-type value.
ConvertUnsolvable == [kind |-> "Unsolvable"]

\* vm.new_unsolvable(node): a fresh variable binding the unknown value at node.
new_unsolvable(node) ==
  Variable(node, <<Instance("unsolvable", ConvertUnsolvable)>>)

\* bool(v): None and the empty string are false, every other object of the
\* classes above is true (none of them defines __bool__ or __len__).
Truthy(v) ==
  CASE v.kind = "NoneType" -> FALSE
    [] v.kind = "str" -> v.value # ""
    [] OTHER -> TRUE

\* x or y
Or(x, y) == IF Truthy(x) THEN x ELSE y

PARAM_TYPES == {"Variable", "Class", "TypeParameter", "Union", "Unsolvable"}

isinstance(v, kinds) == v.kind \in kinds

---------------------------------------------------------------------------
(* class Param *)

ParamObj(name, typ, default) ==
  [kind |-> "Param", name |-> name, typ |-> typ, default |-> default]

\* Param.__init__: raises AssertionError, or yields the constructed object.
ParamInit(name, typ, default) ==
  IF Truthy(typ) /\ ~isinstance(typ, PARAM_TYPES)
  THEN [raised |-> "AssertionError", obj |-> None]
  ELSE [raised |-> "none", obj |-> ParamObj(name, typ, default)]

\* The fields of self after Param.unsolvable(vm, node).
unsolvable_fields(self, node) ==
  [self EXCEPT !.typ = Or(self.typ, ConvertUnsolvable),
               !.default = Or(self.default, new_unsolvable(node))]

\* Param.unsolvable on the object at address id: the heap afterwards and the
\* address of the returned object.
unsolvable(h, id, node) ==
  [heap |-> [h EXCEPT ![id] = unsolvable_fields(h[id], node)], ret |-> id]

---------------------------------------------------------------------------
(* Engine collaborators used by make_method *)

\* pytd.MethodTypes
METHOD == "method"
STATICMETHOD == "staticmethod"
CLASSMETHOD == "classmethod"
PROPERTY == "property"

MethodTypes == {METHOD, STATICMETHOD, CLASSMETHOD, PROPERTY}

\* d[k] = v on a dict.
SetItem(d, k, v) == [x \in (DOMAIN d) \cup {k} |-> IF x = k THEN v ELSE d[x]]

\* abstract.SimpleFunction(name=..., param_names=..., ...): the descriptor
\* holds the fields it is given.
SimpleFunction(name, param_names, varargs_name, kwonly_params, kwargs_name, defaults, annotations) ==
  [kind |-> "SimpleFunction", name |-> name, param_names |-> param_names,
   varargs_name |-> varargs_name, kwonly_params |-> kwonly_params,
   kwargs_name |-> kwargs_name, defaults |-> defaults,
   annotations |-> annotations]

\* Signature.check_defaults(): the first positional name without an entry in
\* defaults that follows one with an entry, or None.  It sees only the
\* descriptor's param_names and defaults.
RECURSIVE check_defaults_from(_, _, _)
check_defaults_from(sig, i, has_default) ==
  IF i > Len(sig.param_names) THEN NoneName
  ELSE IF sig.param_names[i] \in DOMAIN sig.defaults
       THEN check_defaults_from(sig, i + 1, TRUE)
       ELSE IF has_default THEN sig.param_names[i]
            ELSE check_defaults_from(sig, i + 1, has_default)

check_defaults(sig) == check_defaults_from(sig, 1, FALSE)

\* vm.errorlog.invalid_function_definition(vm.frames, msg): the report added.
invalid_function_definition(msg) ==
  [error |-> "invalid-function-definition", msg |-> msg]

\* ret.to_variable(node): the handle of value v bound at node.
to_variable(v, node) == Variable(node, <<v>>)

\* vm.load_special_builtin(name)
load_special_builtin(name) == [kind |-> "SpecialBuiltin", name |-> name]

\* function.Args(posargs=...)
Args(posargs) == [kind |-> "Args", posargs |-> posargs]

\* decorator.call(node, funcv=None, args=args): the pair (node, handle of the
\* decorated value bound at node).
call(decorator, node, args) ==
  <<node,
    to_variable([kind |-> "DecoratedInstance", decorator |-> decorator.name,
                 func |-> args.posargs[1]], node)>>

---------------------------------------------------------------------------
(* make_method *)

\* Variant: a variable resolves to the class itself whenever its candidates
\* carry one distinct class.
process_annotation_distinct(annotations, param) ==
  IF ~Truthy(param.typ) THEN annotations
  ELSE IF isinstance(param.typ, {"Variable"})
       THEN IF \A i \in DOMAIN param.typ.data : Truthy(param.typ.data[i].cls)
            THEN LET types == param.typ.data
                     classes == {types[i].cls : i \in DOMAIN types}
                 IN IF Cardinality(classes) = 1
                    THEN SetItem(annotations, param.name, types[1].cls)
                    ELSE SetItem(annotations, param.name,
                                 Union([i \in DOMAIN types |-> types[i].cls]))
            ELSE annotations
       ELSE SetItem(annotations, param.name, param.typ)

\* Variant: a variable with a classless candidate is stored as it is.
process_annotation_partial(annotations, param) ==
  IF ~Truthy(param.typ) THEN annotations
  ELSE IF isinstance(param.typ, {"Variable"})
       THEN IF \A i \in DOMAIN param.typ.data : Truthy(param.typ.data[i].cls)
            THEN LET types == param.typ.data
                 IN IF Len(types) = 1
                    THEN SetItem(annotations, param.name, types[1].cls)
                    ELSE SetItem(annotations, param.name,
                                 Union([i \in DOMAIN types |-> types[i].cls]))
            ELSE SetItem(annotations, param.name, param.typ)
       ELSE SetItem(annotations, param.name, param.typ)

\* _process_annotation(param): the annotations dict after the call.
process_annotation(annotations, param) ==
  IF ~Truthy(param.typ) THEN annotations
  ELSE IF isinstance(param.typ, {"Variable"})
       THEN IF \A i \in DOMAIN param.typ.data : Truthy(param.typ.data[i].cls)
            THEN LET types == param.typ.data
                 IN IF Len(types) = 1
                    THEN SetItem(annotations, param.name, types[1].cls)
                    ELSE SetItem(annotations, param.name,
                                 Union([i \in DOMAIN types |-> types[i].cls]))
            ELSE annotations
       ELSE SetItem(annotations, param.name, param.typ)

\* for param in xs: _process_annotation(param)
RECURSIVE process_annotations(_, _)
process_annotations(annotations, xs) ==
  IF xs = <<>> THEN annotations
  ELSE process_annotations(process_annotation(annotations, Head(xs)), Tail(xs))

\* Variant: the override is honoured for a class method too.
receiver_override_cls(kind, self_param) ==
  IF kind \in {METHOD, PROPERTY, CLASSMETHOD}
  THEN <<IF Truthy(self_param) THEN self_param
         ELSE ParamInit(IF kind = CLASSMETHOD THEN "cls" ELSE "self",
                        None, None).obj>>
  ELSE <<>>

\* The receiver list assigned to self_param.
receiver(kind, self_param) ==
  IF kind \in {METHOD, PROPERTY}
  THEN <<IF Truthy(self_param) THEN self_param
         ELSE ParamInit("self", None, None).obj>>
  ELSE IF kind = CLASSMETHOD
       THEN <<ParamInit("cls", None, None).obj>>
       ELSE <<>>

\* params = self_param + params
positional(self_list, params) == self_list \o params

\* [x for x in (return_param, varargs, kwargs) if x]
special_params(return_param, varargs, kwargs) ==
  SelectSeq(<<return_param, varargs, kwargs>>, Truthy)

\* The order in which the parameters are annotated.
annotation_order(special, params, kwonly_params) ==
  special \o params \o kwonly_params

\* Variant: a name already seen is dropped.
RECURSIVE names_unique_from(_, _)
names_unique_from(xs, seen) ==
  IF xs = <<>> THEN <<>>
  ELSE IF Head(xs).name \in seen THEN names_unique_from(Tail(xs), seen)
       ELSE <<Head(xs).name>>
            \o names_unique_from(Tail(xs), seen \cup {Head(xs).name})

names_unique(xs) == names_unique_from(xs, {})

\* names = lambda xs: tuple(x.name for x in xs)
names(xs) == [i \in DOMAIN xs |-> xs[i].name]

\* {x.name: x.default for x in xs if x.default}
RECURSIVE make_defaults(_, _)
make_defaults(d, xs) ==
  IF xs = <<>> THEN d
  ELSE make_defaults(IF Truthy(Head(xs).default)
                     THEN SetItem(d, Head(xs).name, Head(xs).default)
                     ELSE d,
                     Tail(xs))

\* Variant: the defaults of varargs and kwargs enter the dict too.
defaults_of_star(params, kwonly_params, varargs, kwargs) ==
  make_defaults(<<>>, params \o kwonly_params
                      \o SelectSeq(<<varargs, kwargs>>, Truthy))

\* The parameters whose defaults enter the defaults dict.
defaults_of(params, kwonly_params, varargs, kwargs) ==
  make_defaults(<<>>, params \o kwonly_params)

\* varargs.name if varargs else None
name_or_none(p) == IF Truthy(p) THEN p.name ELSE NoneName

\* "In method %s, non-default argument %s follows default argument"
bad_default_msg(name, bad_param) ==
  <<"In method", name, "non-default argument", bad_param,
    "follows default argument">>

\* Variant: the first positional parameter is left out of the validation.
validate_skip_first(name, ret) ==
  LET bad_param ==
        IF ret.param_names = <<>> THEN NoneName
        ELSE check_defaults([ret EXCEPT !.param_names = Tail(ret.param_names)])
  IN IF bad_param # NoneName
     THEN <<invalid_function_definition(bad_default_msg(name, bad_param))>>
     ELSE <<>>

\* The reports make_method adds to vm.errorlog for descriptor ret.
validate(name, ret) ==
  LET bad_param == check_defaults(ret)
  IN IF bad_param # NoneName
     THEN <<invalid_function_definition(bad_default_msg(name, bad_param))>>
     ELSE <<>>

\* Variant: nothing is bound once validation has reported.
bound_handle_abort(ret, node, reports) ==
  IF reports # <<>> THEN None ELSE to_variable(ret, node)

\* retvar = ret.to_variable(node), reached whatever validation reported.
bound_handle(ret, node, reports) == to_variable(ret, node)

\* Variant: the two decorators are swapped.
wrap_swapped(kind, node, retvar) ==
  IF kind \in {METHOD, PROPERTY} THEN retvar
  ELSE LET decorator == IF kind = CLASSMETHOD
                        THEN load_special_builtin("staticmethod")
                        ELSE load_special_builtin("classmethod")
           args == Args(<<retvar>>)
       IN call(decorator, node, args)[2]

\* The value make_method returns for the bound handle retvar.
wrap(kind, node, retvar) ==
  IF kind \in {METHOD, PROPERTY} THEN retvar
  ELSE LET decorator == IF kind = CLASSMETHOD
                        THEN load_special_builtin("classmethod")
                        ELSE load_special_builtin("staticmethod")
           args == Args(<<retvar>>)
       IN call(decorator, node, args)[2]

\* The engine operations make_method performs, in program order.
engine_calls(kind, reports) ==
  <<"SimpleFunction", "check_defaults">>
  \o (IF reports # <<>> THEN <<"invalid_function_definition">> ELSE <<>>)
  \o <<"to_variable">>
  \o (IF kind \in {METHOD, PROPERTY} THEN <<>>
      ELSE <<"load_special_builtin", "call">>)

NoResult ==
  [raised |-> "none", ret |-> None, errorlog |-> <<>>, retvar |-> None,
   result |-> None, calls |-> <<>>]

\* make_method(vm, node, name, params, kwonly_params, return_type, self_param,
\*             varargs, kwargs, kind): what was raised or returned, the
\* descriptor built, and what the engine saw.
make_method(node, name, params, kwonly_params, return_type, self_param, varargs, kwargs, kind) ==
  LET self_list == receiver(kind, self_param)
      all_params == positional(self_list, params)
      return_init == IF Truthy(return_type)
                     THEN ParamInit("return", return_type, None)
                     ELSE [raised |-> "none", obj |-> None]
  IN IF return_init.raised # "none"
     THEN [NoResult EXCEPT !.raised = return_init.raised]
     ELSE
       LET special == special_params(return_init.obj, varargs, kwargs)
           annotations ==
             process_annotations(
               <<>>, annotation_order(special, all_params, kwonly_params))
           ret == SimpleFunction(
                    name, names(all_params), name_or_none(varargs),
                    names(kwonly_params), name_or_none(kwargs),
                    defaults_of(all_params, kwonly_params, varargs, kwargs),
                    annotations)
           reports == validate(name, ret)
           retvar == bound_handle(ret, node, reports)
       IN [raised |-> "none", ret |-> ret, errorlog |-> reports,
           retvar |-> retvar, result |-> wrap(kind, node, retvar),
           calls |-> engine_calls(kind, reports)]

---------------------------------------------------------------------------
(* Inputs *)

SeqsUpTo(S, n) == UNION {[1..k -> S] : k \in 0..n}

SeqsFromTo(S, m, n) == UNION {[1..k -> S] : k \in m..n}

Nodes == {"n1", "n2"}

Names == {"self", "cls", "x"}

ClassA == Class("A")
ClassB == Class("B")

\* A default placeholder supplied by the caller.
DefaultD == Variable("d", <<Instance("d", ClassA)>>)

\* The candidates of a variable: the k-th has identity k and carries a class
\* or none.
Candidates(clss) == [i \in DOMAIN clss |-> Instance(i, clss[i])]

Variables ==
  {Variable("v", Candidates(clss)) :
     clss \in SeqsFromTo({ClassA, ClassB, None}, 1, MaxCandidates)}

\* Values of the five recognized kinds.
RecognizedTypes ==
  Variables \cup {ClassA, TypeParameter("T"), Union(<<ClassA, ClassB>>),
                  ConvertUnsolvable}

\* Values of no recognized kind: a false one and a true one.
UnrecognizedTypes == {Str(""), Str("int")}

\* What overlay code hands to Param(name, typ, default).
InitTypes ==
  {None, ClassA, TypeParameter("T"), Union(<<ClassA, ClassB>>),
   ConvertUnsolvable, Variable("v", Candidates(<<ClassA>>))} \cup UnrecognizedTypes

InitDefaults == {None, DefaultD}

\* The Param objects a caller can hold: those Param.__init__ lets through.
Constructed(ns, typs, dflts) ==
  {ParamInit(n, t, d).obj : <<n, t, d>> \in
     {a \in ns \X typs \X dflts :
        ParamInit(a[1], a[2], a[3]).raised = "none"}}

CallRecord(node, name, params, kwonly_params, return_type, self_param, varargs, kwargs, kind) ==
  [node |-> node, name |-> name, params |-> params,
   kwonly_params |-> kwonly_params, return_type |-> return_type,
   self_param |-> self_param, varargs |-> varargs, kwargs |-> kwargs,
   kind |-> kind]

\* Calls that vary the shape of the signature: receiver, names, defaults.
ShapePositional ==
  Constructed(Names, {None}, {None})
  \cup Constructed({"x"}, {None, ClassA}, {DefaultD})

ShapeKwonly ==
  Constructed({"x"}, {None}, {None}) \cup Constructed({"self"}, {ClassB}, {DefaultD})

ShapeSelf ==
  {None} \cup Constructed({"self"}, {None}, {None, DefaultD})
  \cup Constructed({"x"}, {ClassB}, {DefaultD})

ShapeVarargs ==
  {None} \cup {unsolvable_fields(q, "n1") : q \in Constructed({"x"}, {None}, {None})}

ShapeKwargs ==
  {None}
  \cup {unsolvable_fields(q, "n2") : q \in Constructed({"cls"}, {ClassB}, {None})}

ShapeCalls ==
  {CallRecord("n1", "f", c[1], c[2], None, c[3], c[4], c[5], c[6]) :
     c \in SeqsUpTo(ShapePositional, MaxParams)
           \X SeqsUpTo(ShapeKwonly, MaxKwonly)
           \X ShapeSelf \X ShapeVarargs \X ShapeKwargs \X MethodTypes}

\* Calls that vary the type constraints.
TypedPositional ==
  Constructed({"x"}, RecognizedTypes \cup {None, Str("")}, {None})

TypedKwonly ==
  Constructed({"x"}, {ClassB}, {None}) \cup Constructed({"self"}, {None}, {None})

TypedVarargs ==
  {None} \cup Constructed({"x"}, {Union(<<ClassB, ClassA>>)}, {None})

TypedCalls ==
  {CallRecord(c[1], "g", c[2], c[3], c[4], None, c[5], None, c[6]) :
     c \in Nodes \X SeqsUpTo(TypedPositional, 1) \X SeqsUpTo(TypedKwonly, 1)
           \X (RecognizedTypes \cup UnrecognizedTypes \cup {None})
           \X TypedVarargs \X {METHOD, STATICMETHOD}}

Calls == ShapeCalls \cup TypedCalls

---------------------------------------------------------------------------
(* The overlay author's program: it constructs Param objects and finalizes
   them with unsolvable, or calls make_method. *)

NoArgs == [kind |-> "NoneType"]

NoOp ==
  [op |-> "none", name |-> "", typ |-> None, default |-> None, id |-> 0,
   node |-> "", raised |-> "none", ret |-> 0, before |-> <<>>,
   again |-> FALSE, finalized |-> {}]

Init ==
  /\ pc = "start"
  /\ heap = <<>>
  /\ pop = NoOp
  /\ margs = NoArgs
  /\ mres = NoResult

\* p = Param(name, typ, default)
NewParam(name, typ, default) ==
  /\ pc \in {"start", "param"}
  /\ Len(heap) < MaxParamObjs
  /\ LET r == ParamInit(name, typ, default)
     IN /\ heap' = IF r.raised = "none" THEN Append(heap, r.obj) ELSE heap
        /\ pc' = IF r.raised = "none" THEN "param" ELSE "raised"
        /\ pop' = [NoOp EXCEPT !.op = "__init__", !.name = name, !.typ = typ,
                               !.default = default, !.raised = r.raised,
                               !.ret = IF r.raised = "none" THEN Len(heap) + 1
                                       ELSE 0,
                               !.before = heap,
                               !.finalized = pop.finalized]
  /\ UNCHANGED <<margs, mres>>

\* heap[id].unsolvable(vm, node)
Unsolvable(id, node) ==
  /\ pc = "param"
  /\ id \in DOMAIN heap
  /\ LET r == unsolvable(heap, id, node)
     IN /\ heap' = r.heap
        /\ pop' = [NoOp EXCEPT !.op = "unsolvable", !.id = id, !.node = node,
                               !.ret = r.ret, !.before = heap,
                               !.again = id \in pop.finalized,
                               !.finalized = pop.finalized \cup {id}]
  /\ UNCHANGED <<pc, margs, mres>>

\* make_method(vm, c.node, c.name, ...)
MakeMethod(c) ==
  /\ pc = "start"
  /\ margs' = c
  /\ mres' = make_method(c.node, c.name, c.params, c.kwonly_params,
                         c.return_type, c.self_param, c.varargs, c.kwargs,
                         c.kind)
  /\ pc' = "method"
  /\ UNCHANGED <<heap, pop>>

\* The program ends and another one starts.
Reset ==
  /\ pc # "start"
  /\ pc' = "start"
  /\ heap' = <<>>
  /\ pop' = NoOp
  /\ margs' = NoArgs
  /\ mres' = NoResult

Next ==
  \/ /\ pc \in {"start", "param"}
     /\ \E n \in Names, t \in InitTypes, d \in InitDefaults : NewParam(n, t, d)
  \/ /\ pc = "param"
     /\ \E id \in DOMAIN heap, node \in Nodes : Unsolvable(id, node)
  \/ /\ pc = "start"
     /\ \E c \in Calls : MakeMethod(c)
  \/ Reset

Spec == Init /\ [][Next]_vars

---------------------------------------------------------------------------
(* Properties: Param *)

Recognized(typ) == typ.kind \in PARAM_TYPES

\* Every Param object handed to make_method in the current call.
GivenParams ==
  {margs.params[i] : i \in DOMAIN margs.params}
  \cup {margs.kwonly_params[i] : i \in DOMAIN margs.kwonly_params}
  \cup ({margs.self_param, margs.varargs, margs.kwargs} \ {None})

\* C1: Param(name, typ, default) with typ not None and of none of the five
\* recognized kinds raises, for every such typ; so no Param object holds such
\* a typ, and make_method is never called with one.
C1_Original ==
  /\ (pop.op = "__init__" /\ pop.typ # None /\ ~Recognized(pop.typ))
       => pop.raised = "AssertionError"
  /\ \A id \in DOMAIN heap :
       heap[id].typ = None \/ Recognized(heap[id].typ)
  /\ pc = "method" =>
       \A q \in GivenParams : q.typ = None \/ Recognized(q.typ)

\* C9: p.unsolvable(vm, node) replaces a typ that is None by the shared
\* unknown type and a default that is None by an unknown value bound at node,
\* keeps a typ or default that is not None, keeps the name and every other
\* object, returns p itself, and changes nothing when called again.
C9_Original ==
  pop.op = "unsolvable" =>
    LET b == pop.before[pop.id]
        a == heap[pop.id]
    IN /\ a.name = b.name
       /\ a.typ = IF b.typ = None THEN ConvertUnsolvable ELSE b.typ
       /\ a.default = IF b.default = None THEN new_unsolvable(pop.node)
                      ELSE b.default
       /\ \A id \in DOMAIN heap \ {pop.id} : heap[id] = pop.before[id]
       /\ DOMAIN heap = DOMAIN pop.before
       /\ pop.ret = pop.id
       /\ pop.again => heap = pop.before

---------------------------------------------------------------------------
(* Properties: make_method *)

\* make_method has been called and has returned.
Returned == pc = "method" /\ mres.raised = "none"

Min(S) == CHOOSE m \in S : \A k \in S : m <= k

Opt(q) == IF q = None THEN <<>> ELSE <<q>>

Distinct(xs) == \A i, j \in DOMAIN xs : i # j => xs[i] # xs[j]

\* The receiver the call asks for: self (the override, if given) for a
\* method or property, cls for a class method, none for a static method.
AskedReceiver ==
  IF margs.kind \in {METHOD, PROPERTY}
  THEN <<IF margs.self_param # None THEN margs.self_param
         ELSE ParamObj("self", None, None)>>
  ELSE IF margs.kind = CLASSMETHOD THEN <<ParamObj("cls", None, None)>>
       ELSE <<>>

\* The receiver followed by the caller's positional parameters.
AskedPositional == AskedReceiver \o margs.params

\* The report on parameter n of the method being built.
ReportOn(n) ==
  [error |-> "invalid-function-definition",
   msg |-> <<"In method", margs.name, "non-default argument", n,
             "follows default argument">>]

\* Indexes of the caller's positional parameters without a default that
\* follow a caller's positional parameter with one (receiver left out).
CallerOffenders ==
  {i \in DOMAIN margs.params :
     /\ margs.params[i].default = None
     /\ \E j \in 1..(i - 1) : margs.params[j].default # None}

\* The names of the receiver and of every parameter given, in order.
AskedNames ==
  [i \in DOMAIN AskedPositional |-> AskedPositional[i].name]
  \o [i \in DOMAIN margs.kwonly_params |-> margs.kwonly_params[i].name]
  \o [i \in DOMAIN Opt(margs.varargs) |-> margs.varargs.name]
  \o [i \in DOMAIN Opt(margs.kwargs) |-> margs.kwargs.name]

NameHasDefault(n) ==
  LET ds == AskedPositional \o margs.kwonly_params
  IN \E i \in DOMAIN ds : ds[i].name = n /\ ds[i].default # None

\* Indexes, receiver included, of the positional parameters whose name has
\* no default and that follow one whose name has.
Offenders ==
  LET ps == AskedPositional
      has == {n \in Names : NameHasDefault(n)}
  IN {i \in DOMAIN ps :
        /\ ps[i].name \notin has
        /\ \E j \in 1..(i - 1) : ps[j].name \in has}

DescriptorOffenders ==
  {i \in DOMAIN mres.ret.param_names :
     /\ mres.ret.param_names[i] \notin DOMAIN mres.ret.defaults
     /\ \E j \in 1..(i - 1) :
          mres.ret.param_names[j] \in DOMAIN mres.ret.defaults}

\* The handle make_method has to return for the raw handle h.
AskedResult(h) ==
  IF margs.kind \in {METHOD, PROPERTY} THEN h
  ELSE [kind |-> "Variable", id |-> margs.node,
        data |-> <<[kind |-> "DecoratedInstance",
                    decorator |-> IF margs.kind = CLASSMETHOD
                                  THEN "classmethod" ELSE "staticmethod",
                    func |-> h]>>]

\* C3: a default-ordering violation is reported once, naming the method and
\* the offending parameter, and the descriptor is still bound at the node and
\* returned (decorated for class and static methods) with the names and
\* defaults the call asks for; without a violation nothing is reported.
C3_NonFatal ==
  Returned =>
    /\ DescriptorOffenders = {} => mres.errorlog = <<>>
    /\ DescriptorOffenders # {} =>
         /\ Len(mres.errorlog) = 1
         /\ mres.errorlog[1].msg[2] = margs.name
         /\ mres.errorlog[1].msg[4] =
              mres.ret.param_names[Min(DescriptorOffenders)]
    /\ mres.ret.kind = "SimpleFunction"
    /\ mres.ret.name = margs.name
    /\ mres.ret.param_names =
         [i \in DOMAIN AskedPositional |-> AskedPositional[i].name]
    /\ mres.ret.kwonly_params =
         [i \in DOMAIN margs.kwonly_params |-> margs.kwonly_params[i].name]
    /\ \A n \in Names : n \in DOMAIN mres.ret.defaults <=> NameHasDefault(n)
    /\ mres.retvar = [kind |-> "Variable", id |-> margs.node,
                      data |-> <<mres.ret>>]
    /\ mres.result = AskedResult(mres.retvar)

\* A class method with a violation: reported, bound and decorated.
C3_Witness ==
  /\ Returned
  /\ margs.kind = CLASSMETHOD
  /\ mres.errorlog # <<>>
  /\ mres.result # mres.retvar
  /\ mres.result.data[1].func.data[1] = mres.ret

Index(xs, x) == Min({i \in DOMAIN xs : xs[i] = x} \cup {Len(xs) + 1})

\* C7: a method or property returns the raw handle of the descriptor bound
\* at the node; a class method or static method returns the handle that the
\* classmethod or staticmethod decorator makes of that raw handle at the same
\* node, a handle other than the raw one.  The decorator is looked up and
\* applied after validation and binding, and never for a method or property.
C7_Returned ==
  Returned =>
    /\ mres.retvar.id = margs.node
    /\ mres.retvar.data = <<mres.ret>>
    /\ margs.kind \in {METHOD, PROPERTY} =>
         /\ mres.result = mres.retvar
         /\ "load_special_builtin" \notin {mres.calls[i] : i \in DOMAIN mres.calls}
         /\ "call" \notin {mres.calls[i] : i \in DOMAIN mres.calls}
    /\ margs.kind \in {CLASSMETHOD, STATICMETHOD} =>
         /\ mres.result # mres.retvar
         /\ mres.result = AskedResult(mres.retvar)
         /\ Index(mres.calls, "check_defaults") < Index(mres.calls, "to_variable")
         /\ Index(mres.calls, "to_variable")
              < Index(mres.calls, "load_special_builtin")
         /\ Index(mres.calls, "load_special_builtin") < Index(mres.calls, "call")
         /\ Index(mres.calls, "call") = Len(mres.calls)

\* A static method bound at the second node, wrapped by staticmethod.
C7_Witness ==
  /\ Returned
  /\ margs.kind = STATICMETHOD
  /\ margs.node = "n2"
  /\ mres.result.id = "n2"
  /\ mres.result.data[1].decorator = "staticmethod"
  /\ mres.result.data[1].func = mres.retvar

Max(S) == CHOOSE m \in S : \A k \in S : m >= k

\* The parameters in the order make_method annotates them: the return slot,
\* varargs, kwargs, the receiver and the positional ones, the keyword-only.
AnnotationSources ==
  <<ParamObj("return", margs.return_type, None)>>
  \o Opt(margs.varargs) \o Opt(margs.kwargs)
  \o AskedPositional \o margs.kwonly_params

\* A type constraint resolves when it is of a recognized kind and, if a
\* variable, every candidate carries a class.
Resolves(typ) ==
  /\ Recognized(typ)
  /\ typ.kind = "Variable" => \A k \in DOMAIN typ.data : typ.data[k].cls # None

\* Where in src the parameters named n with a resolving constraint are.
ResolvingAt(src, n) ==
  {i \in DOMAIN src : src[i].name = n /\ Resolves(src[i].typ)}

\* Parameter i of src is the last of its name whose constraint resolves: its
\* annotation is the one the mapping keeps.
Kept(src, i) ==
  LET at == ResolvingAt(src, src[i].name)
  IN at # {} /\ i = Max(at)

ClassesOf(typ) == {typ.data[k].cls : k \in DOMAIN typ.data}

Options(u) == {u.options[k] : k \in DOMAIN u.options}

\* C4: for a variable whose candidates all carry a class, the annotation is
\* that class itself when the candidates carry one distinct class (however
\* many candidates there are), and the union of the distinct classes otherwise.
C4_Original ==
  Returned =>
    LET src == AnnotationSources
    IN \A i \in DOMAIN src :
      LET q == src[i]
      IN (q.typ.kind = "Variable" /\ Kept(src, i)) =>
           IF Cardinality(ClassesOf(q.typ)) = 1
           THEN mres.ret.annotations[q.name] \in ClassesOf(q.typ)
           ELSE /\ mres.ret.annotations[q.name].kind = "Union"
                /\ Options(mres.ret.annotations[q.name]) = ClassesOf(q.typ)

\* C4 (amended): the annotation is the candidate's class itself when the
\* variable has one candidate, and otherwise a union with one option per
\* candidate, in order, also when all candidates carry the same class.
C4_Amended ==
  Returned =>
    LET src == AnnotationSources
    IN \A i \in DOMAIN src :
      LET q == src[i]
      IN (q.typ.kind = "Variable" /\ Kept(src, i)) =>
           IF Len(q.typ.data) = 1
           THEN mres.ret.annotations[q.name] = q.typ.data[1].cls
           ELSE mres.ret.annotations[q.name] =
                  [kind |-> "Union",
                   options |-> [k \in DOMAIN q.typ.data |-> q.typ.data[k].cls]]

\* Two candidates of one class give a union, one candidate gives the class.
C4_Witness ==
  /\ Returned
  /\ Len(margs.params) = 1
  /\ margs.params[1].typ.kind = "Variable"
  /\ Len(margs.params[1].typ.data) = 2
  /\ ClassesOf(margs.params[1].typ) = {ClassA}
  /\ margs.kwonly_params = <<>>
  /\ mres.ret.annotations[margs.params[1].name].kind = "Union"
  /\ margs.return_type = Variable("v", Candidates(<<ClassB>>))
  /\ mres.ret.annotations["return"] = ClassB

\* C5: the annotations mapping has an entry for a parameter (or the return
\* slot) iff that parameter carries a type constraint that resolves; a class,
\* type parameter, union or unsolvable constraint is stored verbatim.
C5_Original ==
  Returned =>
    LET src == AnnotationSources
    IN \A i \in DOMAIN src :
      LET q == src[i]
      IN /\ q.name \in DOMAIN mres.ret.annotations <=> Resolves(q.typ)
         /\ q.typ.kind \in PARAM_TYPES \ {"Variable"} =>
              mres.ret.annotations[q.name] = q.typ

\* C5 (amended): the mapping is keyed by name.  It has an entry under a name
\* iff some parameter of that name (or the return slot, named return) carries
\* a constraint that resolves, and the entry is the annotation of the last
\* such parameter in annotation order: verbatim unless the constraint is a
\* variable, which gives a class or a union.
C5_Amended ==
  Returned =>
    /\ DOMAIN mres.ret.annotations \subseteq Names \cup {"return"}
    /\ \A n \in Names \cup {"return"} :
         LET src == AnnotationSources
             at == ResolvingAt(src, n)
         IN /\ n \in DOMAIN mres.ret.annotations <=> at # {}
            /\ at # {} =>
                 LET q == src[Max(at)]
                 IN IF q.typ.kind = "Variable"
                    THEN mres.ret.annotations[n].kind \in {"Class", "Union"}
                    ELSE mres.ret.annotations[n] = q.typ

\* A variable with a classless candidate leaves no entry, next to a return
\* constraint stored verbatim.
C5_Witness ==
  /\ Returned
  /\ Len(margs.params) = 1
  /\ margs.params[1].typ.kind = "Variable"
  /\ ~Resolves(margs.params[1].typ)
  /\ margs.params[1].name \notin DOMAIN mres.ret.annotations
  /\ margs.return_type = TypeParameter("T")
  /\ mres.ret.annotations["return"] = TypeParameter("T")

\* C6: the positional names are the receiver's, if any, then the caller's in
\* order.  A method or property has a receiver named self: the override if
\* given, otherwise one with no annotation and no default entry; a class
\* method one named cls with no annotation and no default entry, whatever the
\* override; a static method none.
C6_Original ==
  Returned =>
    LET pn == mres.ret.param_names
        given == [i \in DOMAIN margs.params |-> margs.params[i].name]
    IN /\ margs.kind \in {METHOD, PROPERTY} =>
            /\ pn = <<"self">> \o given
            /\ margs.self_param = None =>
                 /\ "self" \notin DOMAIN mres.ret.annotations
                 /\ "self" \notin DOMAIN mres.ret.defaults
       /\ margs.kind = CLASSMETHOD =>
            /\ pn = <<"cls">> \o given
            /\ "cls" \notin DOMAIN mres.ret.annotations
            /\ "cls" \notin DOMAIN mres.ret.defaults
       /\ margs.kind = STATICMETHOD => pn = given

\* The receiver make_method creates itself, when it does.
OwnReceiver ==
  IF margs.kind = CLASSMETHOD THEN <<"cls">>
  ELSE IF margs.kind \in {METHOD, PROPERTY} /\ margs.self_param = None
       THEN <<"self">>
       ELSE <<>>

\* C6 (amended): the positional names are the receiver's, if any, then the
\* caller's in order.  The receiver of a method or property is the override
\* under its own name if given, otherwise a parameter named self; that of a
\* class method is a parameter named cls, whatever the override; a static
\* method has none.  A receiver that make_method creates brings no
\* annotation and no default: an entry under its name comes from a given
\* parameter of the same name.
C6_Amended ==
  Returned =>
    LET pn == mres.ret.param_names
        given == [i \in DOMAIN margs.params |-> margs.params[i].name]
    IN /\ margs.kind \in {METHOD, PROPERTY} =>
            pn = <<IF margs.self_param = None THEN "self"
                   ELSE margs.self_param.name>> \o given
       /\ margs.kind = CLASSMETHOD => pn = <<"cls">> \o given
       /\ margs.kind = STATICMETHOD => pn = given
       /\ \A k \in DOMAIN OwnReceiver :
            /\ OwnReceiver[k] \in DOMAIN mres.ret.annotations =>
                 \E q \in GivenParams :
                   q.name = OwnReceiver[k] /\ Resolves(q.typ)
            /\ OwnReceiver[k] \in DOMAIN mres.ret.defaults =>
                 \E q \in GivenParams \ {margs.varargs, margs.kwargs} :
                   q.name = OwnReceiver[k] /\ q.default # None

\* A class method given an override and two positional parameters.
C6_Witness ==
  /\ Returned
  /\ margs.kind = CLASSMETHOD
  /\ margs.self_param # None
  /\ Len(margs.params) = 2
  /\ mres.ret.param_names =
       <<"cls", margs.params[1].name, margs.params[2].name>>
  /\ "cls" \notin DOMAIN mres.ret.defaults

\* Every name the descriptor holds, in order.
DescriptorNames ==
  mres.ret.param_names \o mres.ret.kwonly_params
  \o (IF mres.ret.varargs_name = NoneName THEN <<>>
      ELSE <<mres.ret.varargs_name>>)
  \o (IF mres.ret.kwargs_name = NoneName THEN <<>>
      ELSE <<mres.ret.kwargs_name>>)

\* C8: no name occurs twice among the receiver, positional, keyword-only,
\* varargs and kwargs names of the descriptor, whatever the call.
C8_Original == Returned => Distinct(DescriptorNames)

\* C8 (amended): the descriptor holds the names as given, the receiver's
\* first, without a uniqueness check: a name occurs in the descriptor once
\* for each parameter that carries it.
C8_Amended ==
  Returned =>
    /\ DescriptorNames = AskedNames
    /\ Len(mres.ret.param_names) = Len(AskedPositional)
    /\ Len(mres.ret.kwonly_params) = Len(margs.kwonly_params)
    /\ mres.ret.varargs_name # NoneName <=> margs.varargs # None
    /\ mres.ret.kwargs_name # NoneName <=> margs.kwargs # None

\* A method whose caller names a positional parameter self: self twice.
C8_Witness ==
  /\ Returned
  /\ margs.kind = METHOD
  /\ margs.self_param = None
  /\ Len(margs.params) = 2
  /\ margs.params[2].name = "self"
  /\ mres.ret.param_names = <<"self", margs.params[1].name, "self">>

\* The parameters whose defaults the mapping takes, in order.
DefaultSources == AskedPositional \o margs.kwonly_params

\* Where in ds the parameters named n with a default are.
DefaultedAt(ds, n) ==
  {i \in DOMAIN ds : ds[i].name = n /\ ds[i].default # None}

\* A default of varargs or kwargs is no value of the defaults mapping.
StarDefaultsLeftOut ==
  \A q \in {margs.varargs, margs.kwargs} \ {None} :
    q.default # None =>
      \A n \in DOMAIN mres.ret.defaults : mres.ret.defaults[n] # q.default

====
